---- MODULE Spec2Model ----
(***************************************************************************)
(* Model of main.py: a FastAPI service that streams the rows of            *)
(* large_table as newline-delimited JSON chunks (/bulk-data), one page of  *)
(* them (/bulk-data-paginated), and saves chunks to part_<n>.json files.   *)
(*                                                                         *)
(* Each request is served by an async generator driven by the server's     *)
(* event loop.  A generator is suspended only at its `yield` statements;   *)
(* generate_file is a coroutine without any await inside, so the whole of  *)
(* it (exists check, makedirs, open, json.dump) runs without interruption  *)
(* by another request of the same event loop.                              *)
(***************************************************************************)
EXTENDS Integers, Sequences, FiniteSets, TLC

\* ------------------------------------------------------------------ bounds
MaxRows == 4          \* tables of 0..MaxRows rows
MaxChunkSize == 3     \* chunk_size arguments 0..MaxChunkSize
MaxPage == 3          \* page arguments 0..MaxPage

\* ------------------------------------------------------- program constants
FullDumpLimit == 10000      \* "SELECT * FROM large_table LIMIT 10000"
BadRequest == 400           \* HTTPException(status_code=400, ...)

Req == {"a", "b"}           \* two requests in flight on the event loop
Folders == {"chunks", "chunks_paginated"}

VARIABLES
    table,         \* rows of large_table in query order (row i is record i)
    dirs,          \* directories that exist on disk
    files,         \* files[folder] : chunk number -> tokens of part_<n>.json
    kind,          \* kind[r] : "none" | "full" | "paged"
    page,          \* page[r] : page argument of a paginated request
    chunk_size,    \* chunk_size[r] : chunk_size argument
    pc,            \* pc[r] : position of the request's handler / generator
    result,        \* result[r] : result set of the request's query
    cursor,        \* cursor[r] : rows of result[r] already fetched
    chunk,         \* chunk[r] : the generator's buffer
    chunk_number,  \* chunk_number[r] : the generator's chunk counter
    out,           \* out[r] : lines handed to the response transport
    raised,        \* raised[r] : exception that left the generator, or "none"
    http,          \* http[r] : error response of the handler, or NoResponse
    executed,      \* executed[r] : the request's query was executed
    written,       \* written[r] : files the request has written (history)
    lastWriter,    \* lastWriter[folder] : chunk number -> last request to
                   \*   open part_<n>.json for writing (history)
    absentAtYield  \* absentAtYield[r] : the output folder did not exist when
                   \*   the request last yielded a chunk it will save (history)

vars == <<table, dirs, files, kind, page, chunk_size, pc, result, cursor,
          chunk, chunk_number, out, raised, http, executed, written,
          lastWriter, absentAtYield>>

\* ------------------------------------------------------------ sequences
Min(a, b) == IF a < b THEN a ELSE b

Take(s, n) == SubSeq(s, 1, Min(Len(s), n))

Drop(s, n) == SubSeq(s, Min(Len(s), n) + 1, Len(s))

\* ----------------------------------------------------------- JSON tokens
\* A JSON document is a sequence of tokens: punctuation, or a record.
Tok(s) == [k |-> s, v |-> 0]

Rec(row) == [k |-> "record", v |-> row]

RECURSIVE Items(_, _)
\* the records of a list separated by commas, each preceded by `lead`
Items(rows, lead) ==
    IF rows = <<>> THEN <<>>
    ELSE lead \o <<Rec(Head(rows))>>
         \o (IF Len(rows) > 1 THEN <<Tok(",")>> ELSE <<>>)
         \o Items(Tail(rows), lead)

\* json.dumps(chunk) + "\n"  : one line, items separated by ", "
DumpsLine(rows) == <<Tok("[")>> \o Items(rows, <<>>) \o <<Tok("]"), Tok("\n")>>

\* json.dumps({"message": "No more data available"}) + "\n"
StatusLine == <<Tok("{"), Tok("message"), Tok(":"),
                Tok("No more data available"), Tok("}"), Tok("\n")>>

\* json.dump(chunk, file, ensure_ascii=False, indent=4)
DumpIndent(rows) ==
    IF rows = <<>> THEN <<Tok("["), Tok("]")>>
    ELSE <<Tok("[")>> \o Items(rows, <<Tok("\n    ")>>) \o <<Tok("\n"), Tok("]")>>

\* ------------------------------------------------------------- the store
\* SELECT * FROM large_table LIMIT 10000
FullQuery(t) == Take(t, FullDumpLimit)

\* variant: offset = page * chunk_size
OffsetFromPage(p, c) == p * c

\* offset = (page - 1) * chunk_size
Offset(p, c) == (p - 1) * c

\* SELECT * FROM large_table LIMIT {chunk_size} OFFSET {offset}   (SQLite:
\* a negative LIMIT is no limit, a negative OFFSET is 0)
PageQuery(t, limit, offset) ==
    LET rest == Drop(t, IF offset < 0 THEN 0 ELSE offset)
    IN IF limit < 0 THEN rest ELSE Take(rest, limit)

\* ------------------------------------------------------------ filesystem
NoResponse == [status |-> 0, detail |-> ""]

\* variant: the exists check is left out, makedirs is always called
DirAlwaysMissing(d, folder) == TRUE

\* if not os.path.exists(output_folder)
DirMissing(d, folder) == folder \notin d

\* os.makedirs(output_folder): fails when the folder exists
Makedirs(d, folder) ==
    IF folder \in d THEN [exc |-> "FileExistsError", dirs |-> d]
    ELSE [exc |-> "none", dirs |-> d \cup {folder}]

\* variant: open(file_name, "a"), the data is appended to the old content
AppendFile(old, data) == old \o data

\* variant: open(file_name, "r+"), the data is written over the old content
\* without truncating it
OverlayFile(old, data) == data \o Drop(old, Len(data))

\* open(file_name, "w") then json.dump: the old content is discarded
WriteFile(old, data) == data

\* one folder's files after part_<n>.json is given `data`
PutFile(fs, n, data) ==
    [m \in DOMAIN fs \cup {n} |->
        IF m = n THEN WriteFile(IF n \in DOMAIN fs THEN fs[n] ELSE <<>>, data)
        ELSE fs[m]]

\* generate_file(chunk, chunk_number, output_folder) on disk state (d, f).
\* io is what the operating system does to open/write: "ok", "open" (open
\* fails), or "write" (the write fails after `cut` tokens reached the file).
generate_file(d, f, rows, n, folder, io, cut) ==
    LET mk  == IF DirMissing(d, folder) THEN Makedirs(d, folder)
               ELSE [exc |-> "none", dirs |-> d]
        doc == DumpIndent(rows)
    IN IF mk.exc # "none" THEN [exc |-> mk.exc, dirs |-> d, files |-> f, opened |-> FALSE]
       ELSE IF io = "open" THEN [exc |-> "OSError", dirs |-> mk.dirs, files |-> f, opened |-> FALSE]
       ELSE IF io = "write"
            THEN [exc |-> "OSError", dirs |-> mk.dirs,
                  files |-> [f EXCEPT ![folder] = PutFile(f[folder], n, Take(doc, cut))],
                  opened |-> TRUE]
       ELSE [exc |-> "none", dirs |-> mk.dirs,
             files |-> [f EXCEPT ![folder] = PutFile(f[folder], n, doc)],
             opened |-> TRUE]

\* variant: the call is wrapped in try/except and the exception dropped
AfterAwaitSwallowed(exc, next) == next

\* `await generate_file(...)`: an exception leaves the generator, otherwise
\* the generator goes on at `next`
AfterAwait(exc, next) == IF exc = "none" THEN next ELSE "error"

\* variant: if len(chunk) > chunk_size
BufferOverfull(buf, c) == Len(buf) > c

\* if len(chunk) >= chunk_size
BufferFull(buf, c) == Len(buf) >= c

\* variant: the buffer is not cleared after a chunk was sent
KeptBuffer(buf) == buf

\* chunk = []  (a new list; the emitted one is dropped)
FreshBuffer(buf) == <<>>

\* variant: if page < 1 and chunk_size < 1
InvalidBoth(p, c) == p < 1 /\ c < 1

\* if page < 1 or chunk_size < 1
InvalidParams(p, c) == p < 1 \/ c < 1

\* ------------------------------------------------------------------ Init
Init ==
    /\ table \in {[i \in 1..n |-> i] : n \in 0..MaxRows}
    /\ dirs = {}
    /\ files = [fo \in Folders |-> <<>>]
    /\ kind = [r \in Req |-> "none"]
    /\ page = [r \in Req |-> 0]
    /\ chunk_size = [r \in Req |-> 0]
    /\ pc = [r \in Req |-> "idle"]
    /\ result = [r \in Req |-> <<>>]
    /\ cursor = [r \in Req |-> 0]
    /\ chunk = [r \in Req |-> <<>>]
    /\ chunk_number = [r \in Req |-> 0]
    /\ out = [r \in Req |-> <<>>]
    /\ raised = [r \in Req |-> "none"]
    /\ http = [r \in Req |-> NoResponse]
    /\ executed = [r \in Req |-> FALSE]
    /\ written = [r \in Req |-> {}]
    /\ lastWriter = [fo \in Folders |-> <<>>]
    /\ absentAtYield = [r \in Req |-> FALSE]

\* --------------------------------------------------------------- actions
\* GET /bulk-data: the handler wraps get_large_data_chunks(chunk_size) in a
\* StreamingResponse; nothing of the generator has run yet.
get_bulk_data(r, c) ==
    /\ pc[r] = "idle"
    /\ kind' = [kind EXCEPT ![r] = "full"]
    /\ chunk_size' = [chunk_size EXCEPT ![r] = c]
    /\ pc' = [pc EXCEPT ![r] = "started"]
    /\ UNCHANGED <<table, dirs, files, page, result, cursor, chunk,
                   chunk_number, out, raised, http, executed, written,
                   lastWriter,
                   absentAtYield>>

\* GET /bulk-data-paginated?page=p&chunk_size=c
get_bulk_data_paginated(r, p, c) ==
    /\ pc[r] = "idle"
    /\ kind' = [kind EXCEPT ![r] = "paged"]
    /\ page' = [page EXCEPT ![r] = p]
    /\ chunk_size' = [chunk_size EXCEPT ![r] = c]
    /\ IF InvalidParams(p, c)
       THEN /\ pc' = [pc EXCEPT ![r] = "rejected"]
            /\ http' = [http EXCEPT ![r] =
                   [status |-> BadRequest,
                    detail |-> "Page and chunk_size must be greater than 0"]]
       ELSE /\ pc' = [pc EXCEPT ![r] = "started"]
            /\ UNCHANGED http
    /\ UNCHANGED <<table, dirs, files, result, cursor, chunk, chunk_number,
                   out, raised, executed, written, lastWriter,
                   absentAtYield>>

\* First pull of the generator: the query is executed, the buffer and the
\* chunk counter are initialised.
ExecuteQuery(r) ==
    /\ pc[r] = "started"
    /\ result' = [result EXCEPT ![r] =
           IF kind[r] = "full" THEN FullQuery(table)
           ELSE PageQuery(table, chunk_size[r], Offset(page[r], chunk_size[r]))]
    /\ executed' = [executed EXCEPT ![r] = TRUE]
    /\ cursor' = [cursor EXCEPT ![r] = 0]
    /\ chunk' = [chunk EXCEPT ![r] = <<>>]
    /\ chunk_number' = [chunk_number EXCEPT ![r] = 1]
    /\ pc' = [pc EXCEPT ![r] = "loop"]
    /\ UNCHANGED <<table, dirs, files, kind, page, chunk_size, out, raised,
                   http, written, lastWriter,
                   absentAtYield>>

\* get_large_data_chunks: one iteration of `for row in result.mappings()`
FullFetchRow(r) ==
    /\ kind[r] = "full" /\ pc[r] = "loop"
    /\ cursor[r] < Len(result[r])
    /\ LET buf == Append(chunk[r], result[r][cursor[r] + 1])
       IN /\ chunk' = [chunk EXCEPT ![r] = buf]
          /\ cursor' = [cursor EXCEPT ![r] = @ + 1]
          /\ IF BufferFull(buf, chunk_size[r])
             THEN /\ out' = [out EXCEPT ![r] = Append(@, DumpsLine(buf))]
                  /\ pc' = [pc EXCEPT ![r] = "yielded"]
                  /\ absentAtYield' = [absentAtYield EXCEPT ![r] = "chunks" \notin dirs]
             ELSE UNCHANGED <<out, pc, absentAtYield>>
    /\ UNCHANGED <<table, dirs, files, kind, page, chunk_size, result,
                   chunk_number, raised, http, executed, written, lastWriter>>

\* get_large_data_chunks resumed after `yield json.dumps(chunk)` in the loop:
\* generate_file, chunk_number += 1, chunk = []
FullResume(r, io, cut) ==
    /\ kind[r] = "full" /\ pc[r] = "yielded"
    /\ LET g == generate_file(dirs, files, chunk[r], chunk_number[r],
                              "chunks", io, cut)
       IN /\ dirs' = g.dirs
          /\ files' = g.files
          /\ raised' = [raised EXCEPT ![r] = g.exc]
          /\ pc' = [pc EXCEPT ![r] = AfterAwait(g.exc, "loop")]
          /\ IF AfterAwait(g.exc, "loop") = "loop"
             THEN /\ chunk_number' = [chunk_number EXCEPT ![r] = @ + 1]
                  /\ chunk' = [chunk EXCEPT ![r] = FreshBuffer(@)]
             ELSE UNCHANGED <<chunk_number, chunk>>
          /\ written' = [written EXCEPT ![r] =
                 IF g.opened
                 THEN @ \cup {<<"chunks", chunk_number[r]>>} ELSE @]
          /\ lastWriter' = [lastWriter EXCEPT !["chunks"] =
                 IF g.opened
                 THEN [m \in DOMAIN @ \cup {chunk_number[r]} |->
                          IF m = chunk_number[r] THEN r ELSE @[m]]
                 ELSE @]
    /\ UNCHANGED <<table, kind, page, chunk_size, result, cursor, out, http,
                   executed,
                   absentAtYield>>

\* get_large_data_chunks after the loop: `if chunk: yield ...`, else the end
FullExhausted(r) ==
    /\ kind[r] = "full" /\ pc[r] = "loop"
    /\ cursor[r] >= Len(result[r])
    /\ IF chunk[r] # <<>>
       THEN /\ out' = [out EXCEPT ![r] = Append(@, DumpsLine(chunk[r]))]
            /\ pc' = [pc EXCEPT ![r] = "yielded_rest"]
       ELSE /\ pc' = [pc EXCEPT ![r] = "done"]
            /\ UNCHANGED out
    /\ UNCHANGED <<table, dirs, files, kind, page, chunk_size, result, cursor,
                   chunk, chunk_number, raised, http, executed, written,
                   lastWriter,
                   absentAtYield>>

\* get_large_data_chunks resumed after the yield of the remaining records:
\* print("All data has been sent") and the generator returns
FullFinish(r) ==
    /\ kind[r] = "full" /\ pc[r] = "yielded_rest"
    /\ pc' = [pc EXCEPT ![r] = "done"]
    /\ UNCHANGED <<table, dirs, files, kind, page, chunk_size, result, cursor,
                   chunk, chunk_number, out, raised, http, executed, written,
                   lastWriter,
                   absentAtYield>>

\* get_data_paginated: one iteration of `for row in result.mappings()`
PagedFetchRow(r) ==
    /\ kind[r] = "paged" /\ pc[r] = "loop"
    /\ cursor[r] < Len(result[r])
    /\ chunk' = [chunk EXCEPT ![r] = Append(@, result[r][cursor[r] + 1])]
    /\ cursor' = [cursor EXCEPT ![r] = @ + 1]
    /\ UNCHANGED <<table, dirs, files, kind, page, chunk_size, pc, result,
                   chunk_number, out, raised, http, executed, written,
                   lastWriter,
                   absentAtYield>>

\* get_data_paginated after the loop: yield the page, or the status object
PagedYield(r) ==
    /\ kind[r] = "paged" /\ pc[r] = "loop"
    /\ cursor[r] >= Len(result[r])
    /\ IF chunk[r] # <<>>
       THEN /\ out' = [out EXCEPT ![r] = Append(@, DumpsLine(chunk[r]))]
            /\ pc' = [pc EXCEPT ![r] = "yielded"]
            /\ absentAtYield' = [absentAtYield EXCEPT ![r] =
                   "chunks_paginated" \notin dirs]
       ELSE /\ out' = [out EXCEPT ![r] = Append(@, StatusLine)]
            /\ pc' = [pc EXCEPT ![r] = "yielded_status"]
            /\ UNCHANGED absentAtYield
    /\ UNCHANGED <<table, dirs, files, kind, page, chunk_size, result, cursor,
                   chunk, chunk_number, raised, http, executed, written,
                   lastWriter>>

\* get_data_paginated resumed after the yield of the page: generate_file,
\* chunk_number += 1, and the generator returns
PagedResume(r, io, cut) ==
    /\ kind[r] = "paged" /\ pc[r] = "yielded"
    /\ LET g == generate_file(dirs, files, chunk[r], chunk_number[r],
                              "chunks_paginated", io, cut)
       IN /\ dirs' = g.dirs
          /\ files' = g.files
          /\ raised' = [raised EXCEPT ![r] = g.exc]
          /\ pc' = [pc EXCEPT ![r] = AfterAwait(g.exc, "done")]
          /\ IF AfterAwait(g.exc, "done") = "done"
             THEN chunk_number' = [chunk_number EXCEPT ![r] = @ + 1]
             ELSE UNCHANGED chunk_number
          /\ written' = [written EXCEPT ![r] =
                 IF g.opened
                 THEN @ \cup {<<"chunks_paginated", chunk_number[r]>>} ELSE @]
          /\ lastWriter' = [lastWriter EXCEPT !["chunks_paginated"] =
                 IF g.opened
                 THEN [m \in DOMAIN @ \cup {chunk_number[r]} |->
                          IF m = chunk_number[r] THEN r ELSE @[m]]
                 ELSE @]
    /\ UNCHANGED <<table, kind, page, chunk_size, result, cursor, chunk, out,
                   http, executed,
                   absentAtYield>>

\* get_data_paginated resumed after the yield of the status object
PagedFinish(r) ==
    /\ kind[r] = "paged" /\ pc[r] = "yielded_status"
    /\ pc' = [pc EXCEPT ![r] = "done"]
    /\ UNCHANGED <<table, dirs, files, kind, page, chunk_size, result, cursor,
                   chunk, chunk_number, out, raised, http, executed, written,
                   lastWriter,
                   absentAtYield>>

\* The client disconnects: the response stops pulling and the generator,
\* suspended at a yield (or not yet started), is never resumed.
Disconnect(r) ==
    /\ pc[r] \in {"started", "yielded", "yielded_rest", "yielded_status"}
    /\ pc' = [pc EXCEPT ![r] = "cancelled"]
    /\ UNCHANGED <<table, dirs, files, kind, page, chunk_size, result, cursor,
                   chunk, chunk_number, out, raised, http, executed, written,
                   lastWriter,
                   absentAtYield>>

IoOutcomes == {"ok", "open", "write"}

\* tokens that reached the file before a failed write: any proper prefix
Cuts(r, io) == IF io = "write" THEN 0..(Len(DumpIndent(chunk[r])) - 1) ELSE {0}

Next ==
    \/ \E r \in Req, c \in 1..MaxChunkSize : get_bulk_data(r, c)
    \/ \E r \in Req, p \in 0..MaxPage, c \in 0..MaxChunkSize :
           get_bulk_data_paginated(r, p, c)
    \/ \E r \in Req : ExecuteQuery(r)
    \/ \E r \in Req : FullFetchRow(r)
    \/ \E r \in Req, io \in IoOutcomes : \E cut \in Cuts(r, io) : FullResume(r, io, cut)
    \/ \E r \in Req : FullExhausted(r)
    \/ \E r \in Req : FullFinish(r)
    \/ \E r \in Req : PagedFetchRow(r)
    \/ \E r \in Req : PagedYield(r)
    \/ \E r \in Req, io \in IoOutcomes : \E cut \in Cuts(r, io) : PagedResume(r, io, cut)
    \/ \E r \in Req : PagedFinish(r)
    \/ \E r \in Req : Disconnect(r)

Spec == Init /\ [][Next]_vars

\* ---------------------------------------------------------------- claims
\* Reading a document back, as a client or a test does: json.loads of an
\* array document gives the records between its brackets.
Loads(doc) ==
    LET idx == {i \in 1..Len(doc) : doc[i].k = "record"}
        RECURSIVE Pick(_)
        Pick(i) == IF i > Len(doc) THEN <<>>
                   ELSE (IF i \in idx THEN <<doc[i].v>> ELSE <<>>) \o Pick(i + 1)
    IN Pick(1)

\* the document is a complete JSON array (brackets balanced, items separated)
IsArray(doc) == doc = DumpsLine(Loads(doc)) \/ doc = DumpIndent(Loads(doc))

Ceil(a, b) == (a + b - 1) \div b

RECURSIVE Flatten(_)
\* the records of all lines, concatenated in emission order
Flatten(lines) ==
    IF lines = <<>> THEN <<>> ELSE Loads(Head(lines)) \o Flatten(Tail(lines))

FolderOf(r) == IF kind[r] = "full" THEN "chunks" ELSE "chunks_paginated"

\* C1: a full dump with chunk_size >= 1 over a table of R rows (R within the
\* LIMIT), consumed to the end, emits ceil(R/chunk_size) lines; the first
\* floor(R/chunk_size) hold exactly chunk_size records, the last holds
\* R mod chunk_size (or chunk_size when R is divisible), and the records of all
\* lines in order are the table's rows, none lost, duplicated or reordered.
C1_FullDumpChunks ==
    \A r \in Req :
        (kind[r] = "full" /\ pc[r] = "done" /\ chunk_size[r] >= 1
            /\ Len(table) <= FullDumpLimit) =>
        LET R == Len(table)
            c == chunk_size[r]
            k == Len(out[r])
        IN /\ k = Ceil(R, c)
           /\ \A i \in 1..k : out[r][i] # StatusLine /\ IsArray(out[r][i])
           /\ \A i \in 1..(R \div c) : Len(Loads(out[r][i])) = c
           /\ (R % c # 0) => Len(Loads(out[r][k])) = R % c
           /\ Flatten(out[r]) = table

\* a full dump over 4 rows with chunk_size 3 ran to the end: a full chunk and
\* a short last one
C1_Witness ==
    \E r \in Req :
        /\ kind[r] = "full" /\ pc[r] = "done"
        /\ Len(table) = 4 /\ chunk_size[r] = 3 /\ Len(out[r]) = 2

\* C2 (as claimed): after a full dump consumed to the end that emitted k
\* chunks, the files of the full-dump folder are exactly part_1 .. part_k,
\* and part_i.json parses to the records of the i-th emitted chunk.
C2_FilesAreAllChunks ==
    \A r \in Req :
        (kind[r] = "full" /\ pc[r] = "done") =>
        /\ DOMAIN files["chunks"] = 1..Len(out[r])
        /\ \A i \in 1..Len(out[r]) :
               Loads(files["chunks"][i]) = Loads(out[r][i])

\* C3 (as claimed): every chunk already handed to the response transport is
\* already in its part_<n>.json file.
C3_YieldedIsDurable ==
    \A r \in Req : \A i \in 1..Len(out[r]) :
        out[r][i] # StatusLine =>
        /\ FolderOf(r) \in dirs
        /\ i \in DOMAIN files[FolderOf(r)]
        /\ Loads(files[FolderOf(r)][i]) = Loads(out[r][i])

\* C10: with chunk_size >= 1 the buffer of a full dump never holds more than
\* chunk_size rows; it holds fewer while rows are being fetched, it is
\* emitted when it reaches chunk_size and an empty one replaces it, and a line
\* once emitted is never changed; the buffer of a paginated export never
\* exceeds chunk_size either.
C10_BufferBounded ==
    /\ [](\A r \in Req :
            (kind[r] \in {"full", "paged"} /\ chunk_size[r] >= 1) =>
            /\ Len(chunk[r]) <= chunk_size[r]
            /\ (kind[r] = "full" /\ pc[r] = "loop") => Len(chunk[r]) < chunk_size[r]
            /\ (kind[r] = "full" /\ pc[r] = "yielded") =>
                   /\ Len(chunk[r]) = chunk_size[r]
                   /\ out[r][Len(out[r])] = DumpsLine(chunk[r]))
    /\ [][\A r \in Req :
            /\ (kind[r] = "full" /\ pc[r] = "yielded" /\ pc'[r] = "loop") =>
                   chunk'[r] = <<>>
            /\ Len(out'[r]) >= Len(out[r])
            /\ \A i \in 1..Len(out[r]) : out'[r][i] = out[r][i]]_vars

\* a full dump is past its second chunk with an empty buffer, and a paginated
\* export holds a full page in its buffer
C10_Witness ==
    \E r \in Req, q \in Req :
        /\ kind[r] = "full" /\ pc[r] = "loop" /\ chunk_number[r] = 3
        /\ chunk[r] = <<>> /\ Len(out[r]) = 2
        /\ kind[q] = "paged" /\ chunk_size[q] >= 2
        /\ Len(chunk[q]) = chunk_size[q]

\* C4: a paginated export with page p >= 1 and chunk size c >= 1 consumed
\* to the end yields exactly one line: the min(c, R-(p-1)c) rows from offset
\* (p-1)c in query order when (p-1)c < R, and otherwise the "no more data"
\* status object, in which case the request writes no file.
C4_PaginatedPage ==
    \A r \in Req :
        (kind[r] = "paged" /\ pc[r] = "done" /\ page[r] >= 1
            /\ chunk_size[r] >= 1) =>
        LET R == Len(table)
            c == chunk_size[r]
            off == (page[r] - 1) * c
        IN /\ Len(out[r]) = 1
           /\ IF off < R
              THEN /\ out[r][1] # StatusLine
                   /\ IsArray(out[r][1])
                   /\ Loads(out[r][1]) = SubSeq(table, off + 1, off + Min(c, R - off))
              ELSE /\ out[r][1] = StatusLine
                   /\ written[r] = {}

\* one export ended with a short page that is not the first page, another
\* with the status object
C4_Witness ==
    \E r \in Req, q \in Req :
        /\ kind[r] = "paged" /\ pc[r] = "done" /\ page[r] = 2
        /\ chunk_size[r] = 3 /\ Len(table) = 4 /\ Loads(out[r][1]) = <<4>>
        /\ kind[q] = "paged" /\ pc[q] = "done" /\ out[q] = <<StatusLine>>

\* C5: a paginated request with page < 1 or chunk_size < 1 is rejected with
\* status 400 and "Page and chunk_size must be greater than 0" before any
\* query: it emits no line, executes no query, and the rejecting step leaves
\* directories and files as they were; a request with page >= 1 and
\* chunk_size >= 1 is never rejected.
C5_InvalidParamsRejected ==
    /\ [](\A r \in Req :
            /\ kind[r] = "paged" =>
                   ((page[r] < 1 \/ chunk_size[r] < 1) <=> pc[r] = "rejected")
            /\ pc[r] = "rejected" =>
                   /\ http[r] = [status |-> 400,
                          detail |-> "Page and chunk_size must be greater than 0"]
                   /\ out[r] = <<>> /\ ~executed[r] /\ written[r] = {}
                   /\ raised[r] = "none"
            /\ pc[r] # "rejected" => http[r] = NoResponse)
    /\ [][\A r \in Req :
            /\ (pc[r] # "rejected" /\ pc'[r] = "rejected") =>
                   /\ dirs' = dirs /\ files' = files /\ out' = out
                   /\ executed' = executed /\ written' = written
            /\ pc[r] = "rejected" => pc'[r] = "rejected"]_vars

\* a request with page 0 and one with chunk_size 0 were both rejected
C5_Witness ==
    \E r \in Req, q \in Req :
        /\ pc[r] = "rejected" /\ page[r] = 0 /\ chunk_size[r] >= 1
        /\ pc[q] = "rejected" /\ page[q] >= 1 /\ chunk_size[q] = 0

\* C6: the paginated folder never holds a file other than part_1.json, and
\* when a paginated call completes after an identical call (same page, same
\* chunk_size) that was the last to write part_1.json, it leaves the file
\* with the content the first call left.
C6_PaginatedIdempotent ==
    /\ [](DOMAIN files["chunks_paginated"] \subseteq {1})
    /\ [][\A r \in Req, q \in Req :
            (/\ r # q
             /\ kind[q] = "paged" /\ pc[q] = "done"
             /\ kind[r] = "paged" /\ pc[r] # "done" /\ pc'[r] = "done"
             /\ page[r] = page[q] /\ chunk_size[r] = chunk_size[q]
             /\ 1 \in DOMAIN lastWriter["chunks_paginated"]
             /\ lastWriter["chunks_paginated"][1] = q) =>
            files'["chunks_paginated"] = files["chunks_paginated"]]_vars

\* two identical paginated calls have both written a page of two records
C6_Witness ==
    \E r \in Req, q \in Req :
        /\ r # q
        /\ kind[r] = "paged" /\ pc[r] = "done"
        /\ kind[q] = "paged" /\ pc[q] = "done"
        /\ page[r] = page[q] /\ chunk_size[r] = chunk_size[q]
        /\ written[r] # {} /\ written[q] # {}
        /\ Len(chunk[r]) = 2

\* C7: a filesystem error while a chunk is written leaves the generator as an
\* exception: the export is in its error state, it emits no line in the failing
\* step nor afterwards, and it never completes; an existing output folder is
\* never an error.
C7_WriteFailurePropagates ==
    /\ [](\A r \in Req :
            /\ raised[r] \in {"none", "OSError"}
            /\ raised[r] # "none" <=> pc[r] = "error")
    /\ [][\A r \in Req :
            /\ pc[r] = "error" => (pc'[r] = "error" /\ out'[r] = out[r])
            /\ pc'[r] = "error" => out'[r] = out[r]]_vars

\* the second chunk of a full dump could not be written, in a folder that
\* already existed
C7_Witness ==
    \E r \in Req :
        /\ kind[r] = "full" /\ pc[r] = "error" /\ raised[r] = "OSError"
        /\ chunk_number[r] = 2 /\ Len(out[r]) = 2 /\ "chunks" \in dirs

\* the lines a request emits when it is the only one: the chunks of the
\* table for a full dump, the page or the status object for a paginated call
AloneLines(r) ==
    LET R == Len(table)
        c == chunk_size[r]
        off == (page[r] - 1) * c
    IN IF kind[r] = "full"
       THEN [i \in 1..Ceil(R, c) |->
                DumpsLine(SubSeq(table, (i - 1) * c + 1, Min(i * c, R)))]
       ELSE IF off < R
            THEN <<DumpsLine(SubSeq(table, off + 1, Min(off + c, R)))>>
            ELSE <<StatusLine>>

\* C8: with two requests interleaved, each request that completes has
\* emitted exactly the lines it emits when run alone, and once both have
\* completed, every file both of them wrote holds the complete chunk of the
\* request that wrote it last, never a mixture of the two chunks.
C8_LastWriterWins ==
    /\ \A r \in Req : pc[r] = "done" => out[r] = AloneLines(r)
    /\ \A r \in Req, q \in Req :
           (r # q /\ pc[r] = "done" /\ pc[q] = "done") =>
           \A w \in written[r] \cap written[q] :
               LET fo == w[1]
                   n == w[2]
                   last == lastWriter[fo][n]
               IN /\ last \in {r, q}
                  /\ n \in DOMAIN files[fo]
                  /\ files[fo][n] = DumpIndent(Loads(out[last][n]))

\* two paginated calls for different pages were in flight together and have
\* completed; part_1.json was written first with a page of three records and
\* last with one of one record
C8_Witness ==
    \E r \in Req, q \in Req :
        /\ r # q
        /\ absentAtYield[r] /\ absentAtYield[q]
        /\ kind[r] = "paged" /\ pc[r] = "done" /\ Len(chunk[r]) = 3
        /\ kind[q] = "paged" /\ pc[q] = "done" /\ Len(chunk[q]) = 1
        /\ page[r] # page[q]
        /\ <<"chunks_paginated", 1>> \in written[r] \cap written[q]
        /\ lastWriter["chunks_paginated"][1] = q

====
